---- MODULE Spec2Model ----
(***************************************************************************)
(* AuraLens: resumable two-stage PDF -> text pipeline.                     *)
(*                                                                         *)
(* The specifications of this module share its variables:                  *)
(*   SpecVLM      VLMClient.process_image over every sequence of           *)
(*                per-attempt outcomes (core/vlm_client.py)                *)
(*   SpecCache    WorkflowOrchestrator.calculate_resume_pages and          *)
(*                is_fully_cached over every small cache directory         *)
(*                (core/workflow_orchestrator.py)                          *)
(*   SpecList     list_cached_pages and load_page_text (core/page_cache.py)*)
(*   SpecAssemble BookAssembler.assemble, and save_to_file followed by     *)
(*                get_completed_pages (core/book_assembler.py)             *)
(*   SpecJoin     BookAssembler.join_pages (core/book_assembler.py)        *)
(*   SpecInbox    InboxScanner (core/inbox_watcher.py)                     *)
(*   Spec         MainWindow driving ExtractionWorker / OCRWorker, with    *)
(*                the incrementally saved output file (gui/main_window.py, *)
(*                gui/workers.py, core/book_assembler.py)                  *)
(*   SpecLive     Spec under the scheduling of the worker thread and of    *)
(*                the GUI event loop (weak fairness)                       *)
(*   SpecQueue    the inbox queue: files of the inbox, InboxMonitor scans, *)
(*                configuration changes, manual and inbox runs             *)
(*   SpecExtract  manual extraction runs over every cache of page images   *)
(*                                                                         *)
(* Text is a sequence of lines; a line is a record [t, s].  The separator  *)
(* line "--- Page N ---" is [t |-> "sep", s |-> str(N)].  For join_pages,  *)
(* which looks at characters, a page is a sequence of characters.          *)
(***************************************************************************)
EXTENDS Integers, Sequences, FiniteSets, TLC

(***************************************************************************)
(* Bounds                                                                  *)
(***************************************************************************)
\* pages of the document handed to the pipeline
NumPages == 2
\* page numbers considered when a cache directory is enumerated
MaxCachePages == 3
\* pending inbox arrivals kept in the queue
MaxInbox == 1

(***************************************************************************)
(* Program constants                                                       *)
(***************************************************************************)
\* vlm_client.py: MAX_RETRIES = 1
MAX_RETRIES_two == 1 + 1
MAX_RETRIES == 1
\* VLMClient.__init__ default timeout (seconds), only appears in messages
DEFAULT_TIMEOUT == 120

(***************************************************************************)
(* Text: lines, separators, error markers                                  *)
(***************************************************************************)
Line(s) == [t |-> "line", s |-> s]
\* the line "--- Page {n} ---" with n printed by str()
SepLine(n) == [t |-> "sep", s |-> ToString(n)]
Tag(s) == [t |-> "tag", s |-> s]
EmptyText == << >>
TextA == << Line("a") >>

\* int(p) for a \d+ match of _PAGE_PATTERN
ParseInt(s) == CHOOSE k \in 0..(NumPages + MaxCachePages + 2) : ToString(k) = s

\* main_window.py: f"[ERROR: {error_msg}]"
ErrorMarker(msg) == << Line("[ERROR: " \o msg \o "]") >>

(***************************************************************************)
(* core/vlm_client.py                                                      *)
(***************************************************************************)
\* What one HTTP attempt meets: a network timeout, a connection failure, or
\* a response with a status code and a body.
NoBody == [kind |-> "none", content |-> EmptyText]
NotJsonBody == [kind |-> "notjson", content |-> EmptyText]
MissingFieldsBody == [kind |-> "missing", content |-> EmptyText]
ContentBody(text) == [kind |-> "content", content |-> text]

NetTimeout == [net |-> "timeout", code |-> 0, body |-> NoBody]
NetConnError == [net |-> "conn", code |-> 0, body |-> NoBody]
Response(code, body) == [net |-> "resp", code |-> code, body |-> body]

\* Python exception classes and "except" matching (subclass relation)
IsInstance(cls, base) ==
  \/ cls = base
  \/ /\ base = "VLMError"
     /\ cls \in {"VLMAuthError", "VLMModelNotFoundError", "VLMTimeoutError"}
  \/ /\ base = "Exception"
     /\ cls # "None"

NoExc == [exc |-> "None", msg |-> "None"]
Exc(cls, msg) == [exc |-> cls, msg |-> msg]

\* _THINKING_PATTERN = re.compile(r"<think>.*?</think>", re.DOTALL): the
\* tags are matched as written, lower case only.
IsOpenTag(l) == l = Tag("<think>")
IsCloseTag(l) == l = Tag("</think>")

HasCloseTag(text) == \E i \in 1..Len(text) : IsCloseTag(text[i])
FirstCloseTag(text) == CHOOSE i \in 1..Len(text) :
  IsCloseTag(text[i]) /\ \A j \in 1..(i - 1) : ~IsCloseTag(text[j])

RECURSIVE strip_thinking_tags(_)
strip_thinking_tags(text) ==
  IF text = << >> THEN << >>
  ELSE IF IsOpenTag(Head(text)) /\ HasCloseTag(Tail(text))
  THEN LET rest == Tail(text)
       IN strip_thinking_tags(SubSeq(rest, FirstCloseTag(rest) + 1, Len(rest)))
  ELSE << Head(text) >> \o strip_thinking_tags(Tail(text))

\* _check_status: the exception a status code raises, NoExc when it passes
check_status(code) ==
  IF code \in {401, 403}
  THEN Exc("VLMAuthError", "Authentication failed (HTTP " \o ToString(code) \o ")")
  ELSE IF code = 404
  THEN Exc("VLMModelNotFoundError", "Model or endpoint not found (HTTP 404)")
  ELSE IF code >= 500
  THEN Exc("VLMError", "Server error (HTTP " \o ToString(code) \o ")")
  ELSE IF code >= 400
  THEN Exc("VLMError", "Client error (HTTP " \o ToString(code) \o ")")
  ELSE NoExc

\* _send_request: requests.post, then _check_status, then response.json().
\* Gives [err, body]: the exception raised (NoExc when none) and the JSON.
send_request(outcome) ==
  IF outcome.net = "timeout"
  THEN [err |-> Exc("VLMTimeoutError",
                    "Request timed out after " \o ToString(DEFAULT_TIMEOUT) \o "s"),
        body |-> NoBody]
  ELSE IF outcome.net = "conn"
  THEN [err |-> Exc("VLMError", "Connection failed"), body |-> NoBody]
  ELSE IF check_status(outcome.code) # NoExc
  THEN [err |-> check_status(outcome.code), body |-> NoBody]
  ELSE IF outcome.body.kind = "notjson"
  THEN [err |-> Exc("JSONDecodeError", "Expecting value"), body |-> NoBody]
  ELSE [err |-> NoExc, body |-> outcome.body]

\* _extract_text: choices[0].message.content with the think blocks stripped.
\* Gives [err, text].
extract_text(response_json) ==
  IF response_json.kind = "content"
  THEN [err |-> NoExc, text |-> strip_thinking_tags(response_json.content)]
  ELSE [err |-> Exc("VLMError", "Unexpected response format"), text |-> EmptyText]

\* the try body of one loop iteration: _send_request then _extract_text
attempt_once(outcome) ==
  LET sent == send_request(outcome)
  IN IF sent.err # NoExc
     THEN [err |-> sent.err, text |-> EmptyText]
     ELSE extract_text(sent.body)

\* "except (VLMAuthError, VLMModelNotFoundError): raise"
reraised_only_not_found(cls) == IsInstance(cls, "VLMModelNotFoundError")
reraised(cls) ==
  IsInstance(cls, "VLMAuthError") \/ IsInstance(cls, "VLMModelNotFoundError")

\* "except VLMTimeoutError" and "except VLMError": the two retry handlers
handled_by_retry(cls) ==
  IsInstance(cls, "VLMTimeoutError") \/ IsInstance(cls, "VLMError")

\* _should_retry(attempt): attempt < MAX_RETRIES
should_retry_off_by_one(attempt) == attempt + 1 < MAX_RETRIES
should_retry(attempt) == attempt < MAX_RETRIES

\* range(1 + MAX_RETRIES)
AttemptCount == 1 + MAX_RETRIES

\* "last_error = exc" in both retry handlers
record_last_error_first(last_error, exc) ==
  IF last_error.exc = "None" THEN exc ELSE last_error
record_last_error(last_error, exc) == exc

\* What a process_image call did: it returned text or raised exc/msg, after
\* the effects listed in trace ("request" = one POST, "sleep" = one backoff).
Returned(text, trace) ==
  [kind |-> "return", exc |-> "None", msg |-> "None", text |-> text, trace |-> trace]
Raised(err, trace) ==
  [kind |-> "raise", exc |-> err.exc, msg |-> err.msg, text |-> EmptyText, trace |-> trace]

\* the statement after the loop
raise_exhausted(last_error, trace) ==
  Raised(Exc("VLMError",
             "VLM request failed after " \o ToString(1 + MAX_RETRIES)
               \o " attempts: " \o last_error.msg),
         trace)

\* process_image: the retry loop from iteration `attempt` (0-based) on
RECURSIVE process_image_loop(_, _, _, _)
process_image_loop(attempt, outcomes, last_error, trace) ==
  IF attempt >= AttemptCount
  THEN raise_exhausted(last_error, trace)
  ELSE LET got == attempt_once(outcomes[attempt + 1])
           tr == Append(trace, "request")
       IN IF got.err = NoExc
          THEN Returned(got.text, tr)
          ELSE IF reraised(got.err.exc)
          THEN Raised(got.err, tr)
          ELSE IF handled_by_retry(got.err.exc)
          THEN IF ~should_retry(attempt)
               THEN raise_exhausted(record_last_error(last_error, got.err), tr)
               ELSE process_image_loop(attempt + 1, outcomes,
                                       record_last_error(last_error, got.err),
                                       Append(tr, "sleep"))
          ELSE Raised(got.err, tr)

process_image(outcomes) == process_image_loop(0, outcomes, NoExc, << >>)

Requests(res) == Cardinality({i \in 1..Len(res.trace) : res.trace[i] = "request"})
Sleeps(res) == Cardinality({i \in 1..Len(res.trace) : res.trace[i] = "sleep"})

(***************************************************************************)
(* core/book_assembler.py                                                  *)
(***************************************************************************)
\* self._separator.replace("{n}", str(n)) for DEFAULT_SEPARATOR
Separator_of_index(n) == << SepLine(n - 1) >>
Separator(n) == << SepLine(n) >>

\* BookAssembler.assemble: the parts for pages i..Len(page_texts), i >= 2
RECURSIVE assemble_from(_, _)
assemble_from(page_texts, i) ==
  IF i > Len(page_texts) THEN << >>
  ELSE Separator(i) \o page_texts[i] \o assemble_from(page_texts, i + 1)

assemble(page_texts) ==
  IF page_texts = << >> THEN << >>
  ELSE IF Len(page_texts) = 1 THEN page_texts[1]
  ELSE page_texts[1] \o assemble_from(page_texts, 2)

\* an output file: absent, or present with its content
NoFile == [exists |-> FALSE, content |-> << >>]
FileWith(content) == [exists |-> TRUE, content |-> content]

\* BookAssembler.save_to_file: assemble, then _atomic_write
save_to_file(page_texts) == FileWith(assemble(page_texts))

\* BookAssembler.get_completed_pages: every N of a "--- Page N ---" match
get_completed_pages(file) ==
  IF ~file.exists THEN {}
  ELSE {ParseInt(file.content[i].s) :
          i \in {j \in 1..Len(file.content) : file.content[j].t = "sep"}}

\* join_pages works on the characters of a page: there a page is a sequence
\* of one-character strings.  str.strip / lstrip / rstrip remove white space.
IsSpace(c) == c \in {" ", "\n"}
RECURSIVE lstrip(_)
lstrip(s) == IF s # << >> /\ IsSpace(Head(s)) THEN lstrip(Tail(s)) ELSE s
RECURSIVE rstrip(_)
rstrip(s) ==
  IF s # << >> /\ IsSpace(s[Len(s)]) THEN rstrip(SubSeq(s, 1, Len(s) - 1)) ELSE s
\* str.endswith
EndsWith(s, suffix) ==
  /\ Len(s) >= Len(suffix)
  /\ SubSeq(s, Len(s) - Len(suffix) + 1, Len(s)) = suffix

\* _join_boundary, the de-hyphenation: left_s[:-1] + right_s
dehyphenate_with_space(left_s, right_s) ==
  SubSeq(left_s, 1, Len(left_s) - 1) \o << " " >> \o right_s
dehyphenate(left_s, right_s) == SubSeq(left_s, 1, Len(left_s) - 1) \o right_s

\* _join_boundary, the rules after the hyphen rule: what is put between left_s
\* and right_s (ellipsis, full stop, colon / semicolon, default)
boundary_glue_no_ellipsis(left_s) ==
  IF left_s[Len(left_s)] \in {".", "?", "!"} THEN << "\n", "\n", "\n", "\n" >>
  ELSE << " " >>
boundary_glue(left_s) ==
  IF EndsWith(left_s, << ".", ".", "." >>) THEN << " " >>
  ELSE IF left_s[Len(left_s)] \in {".", "?", "!"} THEN << "\n", "\n", "\n", "\n" >>
  ELSE IF left_s[Len(left_s)] \in {":", ";"} THEN << " " >>
  ELSE << " " >>

\* BookAssembler._join_boundary(left, right)
join_boundary(left, right) ==
  LET left_s == rstrip(left)
      right_s == lstrip(right)
  IN IF left_s = << >> THEN right_s
     ELSE IF right_s = << >> THEN left_s
     ELSE IF EndsWith(left_s, << "-" >>) THEN dehyphenate(left_s, right_s)
     ELSE left_s \o boundary_glue(left_s) \o right_s

\* join_pages: pages = [p.strip() for p in page_texts], empty pages dropped
RECURSIVE stripped_pages(_)
stripped_pages(page_texts) ==
  IF page_texts = << >> THEN << >>
  ELSE LET p == lstrip(rstrip(Head(page_texts)))
       IN (IF p = << >> THEN << >> ELSE << p >>) \o stripped_pages(Tail(page_texts))

(***************************************************************************)
(* core/page_cache.py, core/workflow_orchestrator.py                       *)
(***************************************************************************)
\* a file of the cache directory: page_NNN.jpg or page_NNN.txt
page_image_path(page_num) == [num |-> page_num, ext |-> "jpg"]
page_text_path(page_num) == [num |-> page_num, ext |-> "txt"]

\* _PAGE_PATTERN = ^page_(\d{3})\.jpg$
MatchesPagePattern(f) == f.ext = "jpg" /\ f.num >= 0 /\ f.num <= 999

RECURSIVE SortedByNum(_)
SortedByNum(files) ==
  IF files = {} THEN << >>
  ELSE LET first == CHOOSE f \in files : \A g \in files : f.num <= g.num
       IN << first >> \o SortedByNum(files \ {first})

\* list_cached_pages: the sorted page_NNN.jpg files of the directory
list_cached_pages_reversed(files) ==
  LET pages == SortedByNum({f \in files : MatchesPagePattern(f)})
  IN [i \in 1..Len(pages) |-> pages[Len(pages) + 1 - i]]
list_cached_pages(files) == SortedByNum({f \in files : MatchesPagePattern(f)})

\* get_page_number(name): the page number of a page file name, -1 if none
get_page_number(f) == IF MatchesPagePattern(f) THEN f.num ELSE -1

\* load_page_text: "" when page_NNN.txt is absent, else
\* text_path.read_text(encoding="utf-8"), which raises when the file cannot be
\* decoded or opened; nothing in load_page_text catches it.  Gives
\* [kind, exc, text].
load_page_text(files, texts, page_num, readable) ==
  IF page_text_path(page_num) \notin files
  THEN [kind |-> "return", exc |-> "None", text |-> EmptyText]
  ELSE IF readable = "undecodable"
  THEN [kind |-> "raise", exc |-> "UnicodeDecodeError", text |-> EmptyText]
  ELSE IF readable = "denied"
  THEN [kind |-> "raise", exc |-> "PermissionError", text |-> EmptyText]
  ELSE [kind |-> "return", exc |-> "None", text |-> texts[page_num]]

\* WorkflowOrchestrator.calculate_resume_pages
calculate_resume_pages(files) ==
  LET page_images == list_cached_pages(files)
  IN {get_page_number(page_images[i]) :
        i \in {j \in 1..Len(page_images) :
                 /\ get_page_number(page_images[j]) # -1
                 /\ page_text_path(get_page_number(page_images[j])) \in files}}

\* WorkflowOrchestrator.is_fully_cached; list_cached_pages returns [] for a
\* cache_dir that is not a directory
is_fully_cached_vacuous(is_dir, files) ==
  LET page_images == IF is_dir THEN list_cached_pages(files) ELSE << >>
  IN \A i \in 1..Len(page_images) :
       get_page_number(page_images[i]) # -1 =>
         page_text_path(get_page_number(page_images[i])) \in files
is_fully_cached(is_dir, files) ==
  LET page_images == IF is_dir THEN list_cached_pages(files) ELSE << >>
  IN IF page_images = << >> THEN FALSE
     ELSE \A i \in 1..Len(page_images) :
            get_page_number(page_images[i]) # -1 =>
              page_text_path(get_page_number(page_images[i])) \in files

(***************************************************************************)
(* core/inbox_watcher.py                                                   *)
(***************************************************************************)
\* A resolved path of the inbox is a number: its rank in the order of names.
RECURSIVE SortedFiles(_)
SortedFiles(files) ==
  IF files = {} THEN << >>
  ELSE LET first == CHOOSE f \in files : \A g \in files : f <= g
       IN << first >> \o SortedFiles(files \ {first})
Range(seq) == {seq[i] : i \in 1..Len(seq)}

\* InboxScanner.scan: new_files = sorted(current - self._seen), [] when the
\* inbox is not a directory
scan_new_files(seen, dir) ==
  IF ~dir.is_dir THEN << >> ELSE SortedFiles(dir.files \ seen)
\* InboxScanner.scan: self._seen.update(new_files)
scan_seen_forgets(seen, new_files) == seen
scan_seen(seen, new_files) == seen \cup Range(new_files)
\* InboxScanner.mark_seen: self._seen.add(path.resolve())
mark_seen(seen, path) == seen \cup {path}
\* InboxScanner.reset: self._seen.clear()
reset(seen) == {}

(***************************************************************************)
(* State                                                                   *)
(***************************************************************************)
VARIABLES
  vlm_in,        \* SpecVLM: what each attempt of the last process_image call met
  vlm_out,       \* SpecVLM: what that call did
  cache_files,   \* the files of the cache directory (page_NNN.jpg / .txt)
  cache_text,    \* the content of each page_NNN.txt
  resume_done,   \* SpecCache: calculate_resume_pages has been called
  resume_out,    \* SpecCache: the set it returned
  cache_is_dir,  \* SpecCache: the cache directory exists (cache_dir.is_dir())
  fully_out,     \* SpecCache: the last is_fully_cached call and what it returned
  mw,            \* MainWindow's fields, and the OCRWorker's constructor arguments
  out_file,      \* the incrementally saved output file <outbox>/<stem>.txt
  w_pc,          \* the worker thread: idle, ext_loop, ocr_loop, ocr_call, dead
  w_idx,         \* the worker's loop variable (page_num in extraction, idx in OCR)
  w_cancelled,   \* the worker's _cancelled flag
  queue,         \* signals emitted by the worker, not yet handled by the GUI thread
  calls,         \* history: the process_image calls of the current OCR run
  last_ok_n,     \* history: n if the last finished OCR run OCRed all its n pages, else 0
  resume_file,   \* history: the output file as it was when the current OCR run began
  events,        \* history: every signal the current worker has emitted, in order
  w_live,        \* worker threads started whose run() has not ended
  cancel_log,    \* history: cancel() calls on the current worker
  ext_run,       \* history: what the current extraction run found and wrote
  lib_call,      \* the last call of a page_cache / BookAssembler function
  join,          \* BookAssembler.join_pages: its loop over the page boundaries
  scanner,       \* InboxScanner: _seen, and the record of its calls
  inbox_dir      \* the inbox directory: whether it exists, the PDF files in it

vars == << vlm_in, vlm_out, cache_files, cache_text, resume_done, resume_out,
           cache_is_dir, fully_out, mw, out_file, w_pc, w_idx, w_cancelled, queue,
           calls, last_ok_n, resume_file, events, w_live, cancel_log, ext_run,
           lib_call, join, scanner, inbox_dir >>

lib_vars == << lib_call, join, scanner, inbox_dir >>
vlm_vars == << vlm_in, vlm_out >>
cache_vars == << cache_text, resume_done, resume_out, cache_is_dir, fully_out >>
pipeline_vars == << mw, out_file, w_pc, w_idx, w_cancelled, queue,
                    calls, last_ok_n, resume_file, events, w_live,
                    cancel_log, ext_run >>
\* history of a run, apart from the signals it emitted
run_hist == << calls, last_ok_n, resume_file, cancel_log, ext_run >>
ocr_hist == << calls, last_ok_n, resume_file >>

Pdfs == {"doc"}
CachePages == 1..MaxCachePages
Texts == {EmptyText, TextA}

\* MainWindow.__init__
MainWindowInit ==
  [current_pdf |-> "none", page_texts |-> << >>, is_processing |-> FALSE,
   cache_dir_set |-> FALSE, auto_mode |-> FALSE, inbox_queue |-> << >>,
   stack |-> "placeholder", cancel_enabled |-> FALSE, worker |-> "none",
   skip_pages |-> {}, page_paths |-> << >>, launch |-> "none",
   rescan_page |-> 0, config_ok |-> TRUE]

NoResult == [kind |-> "none", exc |-> "None", msg |-> "None",
             text |-> EmptyText, trace |-> << >>]

VlmIdle == vlm_in = << >> /\ vlm_out = NoResult
NotCalled == [called |-> FALSE, result |-> FALSE]
CacheIdle ==
  /\ cache_text = [p \in CachePages |-> EmptyText]
  /\ resume_done = FALSE
  /\ resume_out = {}
  /\ cache_is_dir = TRUE
  /\ fully_out = NotCalled
\* no cancel() call yet; n is 0, 1 or 2 for "two or more" calls on the worker
\* while it runs
NoCancel == [n |-> 0]
\* an extraction run: the pages whose image existed when it started, the
\* pages it rasterized and wrote, the page whose rasterization raised (0: none)
NoExtRun == [pre |-> {}, written |-> {}, failed |-> 0]
\* no library call yet, no join_pages loop, a new InboxScanner, an empty inbox
NoCall == [fn |-> "none", page |-> 0, readable |-> "ok", pages |-> << >>,
           listing |-> << >>, kind |-> "none", exc |-> "None", text |-> << >>,
           found |-> {}]
NoJoin == [input |-> << >>, pages |-> << >>, left |-> << >>, right |-> << >>,
           result |-> << >>, steps |-> -1]
NoScan == [called |-> FALSE, result |-> << >>, present |-> {}, given |-> {},
           prev |-> "init"]
ScannerInit == [seen |-> {}, given |-> {}, prev |-> "init", last |-> NoScan]
LibIdle ==
  /\ lib_call = NoCall
  /\ join = NoJoin
  /\ scanner = ScannerInit
  /\ inbox_dir = [is_dir |-> TRUE, files |-> {}]
PipelineIdle ==
  /\ mw = MainWindowInit
  /\ out_file = NoFile
  /\ w_pc = "idle"
  /\ w_idx = 0
  /\ w_cancelled = FALSE
  /\ queue = << >>
  /\ calls = << >>
  /\ last_ok_n = 0
  /\ resume_file = NoFile
  /\ events = << >>
  /\ w_live = 0
  /\ cancel_log = NoCancel
  /\ ext_run = NoExtRun

(***************************************************************************)
(* SpecVLM: process_image against every sequence of attempt outcomes       *)
(***************************************************************************)
ErrorCodes == {400, 401, 403, 404, 429, 500, 503}
ThinkingText == << Tag("<think>"), Line("x"), Tag("</think>"), Line("a") >>
\* a think block over several lines, and one with its tags in upper case
MultilineThinkingText ==
  << Line("a"), Tag("<think>"), Line("x"), Line("y"), Tag("</think>") >>
UpperThinkingText == << Tag("<THINK>"), Line("x"), Tag("</THINK>"), Line("a") >>
Bodies == {NotJsonBody, MissingFieldsBody, ContentBody(EmptyText),
           ContentBody(TextA), ContentBody(ThinkingText),
           ContentBody(MultilineThinkingText), ContentBody(UpperThinkingText)}
Outcomes ==
  {NetTimeout, NetConnError}
    \cup {Response(c, NoBody) : c \in ErrorCodes}
    \cup {Response(200, b) : b \in Bodies}
OutcomeSeqs == [1..AttemptCount -> Outcomes]

InitVLM == VlmIdle /\ CacheIdle /\ cache_files = {} /\ PipelineIdle /\ LibIdle

\* VLMClient.process_image, called with the attempts meeting `outcomes`
ProcessImage ==
  \E outcomes \in OutcomeSeqs :
    /\ vlm_in' = outcomes
    /\ vlm_out' = process_image(outcomes)
    /\ UNCHANGED << cache_files, cache_vars, pipeline_vars, lib_vars >>

NextVLM == ProcessImage

SpecVLM == InitVLM /\ [][NextVLM]_vars

(***************************************************************************)
(* SpecCache: the resume set of every small cache directory                *)
(***************************************************************************)
AllCacheFiles ==
  {page_image_path(p) : p \in CachePages} \cup {page_text_path(p) : p \in CachePages}

InitCache ==
  /\ VlmIdle
  /\ PipelineIdle
  /\ LibIdle
  /\ cache_files \in SUBSET AllCacheFiles
  /\ cache_is_dir \in BOOLEAN
  /\ ~cache_is_dir => cache_files = {}
  /\ fully_out = NotCalled
  /\ cache_text \in [CachePages -> Texts]
  /\ \A p \in CachePages :
       page_text_path(p) \notin cache_files => cache_text[p] = EmptyText
  /\ resume_done = FALSE
  /\ resume_out = {}

\* WorkflowOrchestrator.calculate_resume_pages(cache_dir)
CalculateResumePages ==
  /\ resume_done' = TRUE
  /\ resume_out' = calculate_resume_pages(cache_files)
  /\ UNCHANGED << cache_files, cache_text, cache_is_dir, fully_out,
                  vlm_vars, pipeline_vars, lib_vars >>

\* WorkflowOrchestrator.is_fully_cached(cache_dir)
IsFullyCached ==
  /\ fully_out' = [called |-> TRUE,
                   result |-> is_fully_cached(cache_is_dir, cache_files)]
  /\ UNCHANGED << cache_files, cache_text, cache_is_dir, resume_done,
                  resume_out, vlm_vars, pipeline_vars, lib_vars >>

NextCache == CalculateResumePages \/ IsFullyCached

SpecCache == InitCache /\ [][NextCache]_vars

(***************************************************************************)
(* SpecList: page_cache.list_cached_pages and load_page_text on the files  *)
(* extraction and OCR leave in a cache directory                           *)
(***************************************************************************)
\* the pages whose image may be in the directory: the first pages, and the
\* last page number of three digits with the first of four
ListPages == CachePages \cup {999, 1000}
\* what read_text meets: a readable file, bytes that are not UTF-8, or a file
\* the process may not open
ReadOutcomes == {"ok", "undecodable", "denied"}

InitList ==
  /\ VlmIdle
  /\ PipelineIdle
  /\ LibIdle
  /\ cache_files \in SUBSET ({page_image_path(p) : p \in ListPages}
                               \cup {page_text_path(p) : p \in CachePages})
  /\ cache_is_dir \in BOOLEAN
  /\ ~cache_is_dir => cache_files = {}
  /\ cache_text \in [CachePages -> Texts]
  /\ \A p \in CachePages :
       page_text_path(p) \notin cache_files => cache_text[p] = EmptyText
  /\ resume_done = FALSE
  /\ resume_out = {}
  /\ fully_out = NotCalled

\* list_cached_pages(cache_dir)
ListCachedPages ==
  /\ lib_call' = [NoCall EXCEPT
                    !.fn = "list_cached_pages",
                    !.kind = "return",
                    !.listing = IF cache_is_dir THEN list_cached_pages(cache_files)
                                ELSE << >>]
  /\ UNCHANGED << cache_files, cache_vars, vlm_vars, pipeline_vars, join,
                  scanner, inbox_dir >>

\* load_page_text(cache_dir, page_num)
LoadPageText ==
  /\ \E page_num \in CachePages, readable \in ReadOutcomes :
       LET res == load_page_text(cache_files, cache_text, page_num, readable)
       IN lib_call' = [NoCall EXCEPT !.fn = "load_page_text", !.page = page_num,
                                     !.readable = readable, !.kind = res.kind,
                                     !.exc = res.exc, !.text = res.text]
  /\ UNCHANGED << cache_files, cache_vars, vlm_vars, pipeline_vars, join,
                  scanner, inbox_dir >>

NextList == ListCachedPages \/ LoadPageText

SpecList == InitList /\ [][NextList]_vars

(***************************************************************************)
(* SpecAssemble: BookAssembler.assemble on every short list of page texts  *)
(***************************************************************************)
AsmTexts == Texts \cup {<< Line("a"), Line("b") >>}
AsmInputs == UNION {[1..n -> AsmTexts] : n \in 0..(NumPages + 2)}

InitAssemble == VlmIdle /\ CacheIdle /\ cache_files = {} /\ PipelineIdle /\ LibIdle

\* BookAssembler.assemble(page_texts)
Assemble ==
  /\ \E page_texts \in AsmInputs :
       lib_call' = [NoCall EXCEPT !.fn = "assemble", !.kind = "return",
                                  !.pages = page_texts,
                                  !.text = assemble(page_texts)]
  /\ UNCHANGED << cache_files, cache_vars, vlm_vars, pipeline_vars, join,
                  scanner, inbox_dir >>

\* assembler.save_to_file(page_texts, path), then
\* assembler.get_completed_pages(path) as _on_continue_to_ocr calls it
SaveThenGetCompletedPages ==
  /\ \E page_texts \in AsmInputs :
       LET file == save_to_file(page_texts)
       IN lib_call' = [NoCall EXCEPT !.fn = "get_completed_pages",
                                     !.kind = "return",
                                     !.pages = page_texts,
                                     !.text = file.content,
                                     !.found = get_completed_pages(file)]
  /\ UNCHANGED << cache_files, cache_vars, vlm_vars, pipeline_vars, join,
                  scanner, inbox_dir >>

NextAssemble == Assemble \/ SaveThenGetCompletedPages

SpecAssemble == InitAssemble /\ [][NextAssemble]_vars

(***************************************************************************)
(* SpecJoin: BookAssembler.join_pages, one page boundary at a time         *)
(***************************************************************************)
\* characters of the first page, at most this many
MaxPageLen == 3
Chars == {"a", "-", ".", "?", "!", ":", ";", " "}
FirstPages == UNION {[1..k -> Chars] : k \in 0..MaxPageLen}
\* the pages after the first: one with leading white space, an empty one, one
\* that ends with a hyphen
NextPages == {<< " ", "w" >>, << >>, << "b", "-" >>}
JoinInputs ==
  {<< >>} \cup
  {<< first >> \o rest :
     first \in FirstPages, rest \in UNION {[1..k -> NextPages] : k \in 0..NumPages}}

InitJoin ==
  /\ VlmIdle
  /\ CacheIdle
  /\ cache_files = {}
  /\ PipelineIdle
  /\ lib_call = NoCall
  /\ scanner = ScannerInit
  /\ inbox_dir = [is_dir |-> TRUE, files |-> {}]
  /\ \E page_texts \in JoinInputs : join = [NoJoin EXCEPT !.input = page_texts]

\* join_pages up to the loop: strip the pages, drop the empty ones,
\* result = pages[0]
JoinPagesBegin ==
  /\ join.steps = -1
  /\ LET pages == stripped_pages(join.input)
     IN join' = [join EXCEPT
                   !.pages = IF pages = << >> THEN << >> ELSE Tail(pages),
                   !.result = IF pages = << >> THEN << >> ELSE Head(pages),
                   !.steps = 0]
  /\ UNCHANGED << cache_files, cache_vars, vlm_vars, pipeline_vars, lib_call,
                  scanner, inbox_dir >>

\* one iteration of "for next_page in pages[1:]"
JoinPagesNext ==
  /\ join.steps >= 0
  /\ join.pages # << >>
  /\ join' = [join EXCEPT
                !.left = join.result,
                !.right = Head(join.pages),
                !.result = join_boundary(join.result, Head(join.pages)),
                !.pages = Tail(join.pages),
                !.steps = join.steps + 1]
  /\ UNCHANGED << cache_files, cache_vars, vlm_vars, pipeline_vars, lib_call,
                  scanner, inbox_dir >>

NextJoin == JoinPagesBegin \/ JoinPagesNext

SpecJoin == InitJoin /\ [][NextJoin]_vars

(***************************************************************************)
(* SpecInbox: an InboxScanner on an inbox whose files come and go          *)
(***************************************************************************)
\* PDF files that can be in the inbox
MaxInboxFiles == 2
InboxFiles == 1..MaxInboxFiles

InitInbox ==
  /\ VlmIdle
  /\ CacheIdle
  /\ cache_files = {}
  /\ PipelineIdle
  /\ lib_call = NoCall
  /\ join = NoJoin
  /\ scanner = ScannerInit
  /\ \E is_dir \in BOOLEAN, files \in SUBSET InboxFiles :
       /\ ~is_dir => files = {}
       /\ inbox_dir = [is_dir |-> is_dir, files |-> files]

inbox_rest == << cache_files, cache_vars, vlm_vars, pipeline_vars, lib_call, join >>

\* scanner.scan(inbox_dir).  given / prev / last are the record of the calls:
\* the files returned or marked since the last reset, the call before, and
\* the last scan with what was present and given when it ran
Scan ==
  /\ LET new_files == scan_new_files(scanner.seen, inbox_dir)
     IN scanner' = [seen |-> scan_seen(scanner.seen, new_files),
                    given |-> scanner.given \cup Range(new_files),
                    prev |-> "scan",
                    last |-> [called |-> TRUE, result |-> new_files,
                              present |-> inbox_dir.files,
                              given |-> scanner.given, prev |-> scanner.prev]]
  /\ UNCHANGED << inbox_dir, inbox_rest >>

\* scanner.mark_seen(path)
MarkSeen ==
  /\ \E path \in InboxFiles :
       scanner' = [scanner EXCEPT !.seen = mark_seen(scanner.seen, path),
                                  !.given = @ \cup {path},
                                  !.prev = "mark_seen"]
  /\ UNCHANGED << inbox_dir, inbox_rest >>

\* scanner.reset()
Reset ==
  /\ scanner' = [scanner EXCEPT !.seen = reset(scanner.seen), !.given = {},
                                 !.prev = "reset"]
  /\ UNCHANGED << inbox_dir, inbox_rest >>

\* a PDF file is put into the inbox, or taken out of it
FileArrives ==
  /\ inbox_dir.is_dir
  /\ \E f \in InboxFiles \ inbox_dir.files :
       inbox_dir' = [inbox_dir EXCEPT !.files = @ \cup {f}]
  /\ UNCHANGED << scanner, inbox_rest >>
FileRemoved ==
  /\ \E f \in inbox_dir.files :
       inbox_dir' = [inbox_dir EXCEPT !.files = @ \ {f}]
  /\ UNCHANGED << scanner, inbox_rest >>

NextInbox == Scan \/ MarkSeen \/ Reset \/ FileArrives \/ FileRemoved

SpecInbox == InitInbox /\ [][NextInbox]_vars

(***************************************************************************)
(* gui/main_window.py: the handlers, as functions of MainWindow's fields   *)
(***************************************************************************)
\* _ensure_page_slots, then self._page_texts[page_num - 1] = text
EnsurePageSlots(page_texts, page_num) ==
  IF Len(page_texts) >= page_num THEN page_texts
  ELSE page_texts \o [i \in 1..(page_num - Len(page_texts)) |-> EmptyText]
SetPageText(page_texts, page_num, text) ==
  [EnsurePageSlots(page_texts, page_num) EXCEPT ![page_num] = text]

\* _start_extraction: the field "launch" tells which worker start() was called on
start_extraction(w) ==
  [w EXCEPT !.is_processing = TRUE, !.page_texts = << >>,
            !.stack = "processing", !.worker = "extraction",
            !.cancel_enabled = TRUE, !.launch = "extraction"]

\* _on_open_pdf with a file chosen in the dialog
on_open_pdf(w, pdf) ==
  [w EXCEPT !.auto_mode = FALSE, !.current_pdf = pdf, !.page_texts = << >>]

\* _validate_for_processing, _can_auto_process: model name and API URL set
validate_for_processing(w) == w.config_ok
can_auto_process(w) == w.config_ok

\* _on_process
on_process(w) ==
  IF w.current_pdf = "none" \/ ~validate_for_processing(w) THEN w
  ELSE start_extraction([w EXCEPT !.auto_mode = FALSE])

\* _process_next_in_queue; `gone` is how many of the entries at the head of
\* the queue name a file that no longer exists
process_next_in_queue_newest_first(w, gone) ==
  IF w.is_processing \/ w.inbox_queue = << >> THEN w
  ELSE IF ~can_auto_process(w) THEN w
  ELSE start_extraction(
         [w EXCEPT !.inbox_queue = SubSeq(@, 1, Len(@) - 1),
                   !.auto_mode = TRUE,
                   !.current_pdf = w.inbox_queue[Len(w.inbox_queue)],
                   !.page_texts = << >>])
RECURSIVE process_next_in_queue(_, _)
process_next_in_queue(w, gone) ==
  IF w.is_processing \/ w.inbox_queue = << >> THEN w
  ELSE IF ~can_auto_process(w) THEN w
  ELSE LET pdf_path == Head(w.inbox_queue)
           popped == [w EXCEPT !.inbox_queue = Tail(@)]
       IN IF gone > 0
          THEN process_next_in_queue(popped, gone - 1)
          ELSE start_extraction([popped EXCEPT !.auto_mode = TRUE,
                                               !.current_pdf = pdf_path,
                                               !.page_texts = << >>])

\* _on_inbox_pdf_detected
on_inbox_pdf_detected(w, pdf, gone) ==
  process_next_in_queue([w EXCEPT !.inbox_queue = Append(@, pdf)], gone)

\* _on_continue_to_ocr: `files` is the cache directory, `file` the output file.
\* The OCRWorker(...) call at main_window.py:331 passes no user_prompt, which
\* OCRWorker.__init__ (workers.py:100) requires; the prompts enter no state
\* modelled here, and the worker is taken as built from page_paths and
\* skip_pages as passed.
on_continue_to_ocr(w, files, file) ==
  LET page_paths == list_cached_pages(files)
  IN IF page_paths = << >> THEN w
     ELSE [w EXCEPT !.is_processing = TRUE, !.page_texts = << >>,
                    !.stack = "processing", !.worker = "ocr",
                    !.cancel_enabled = TRUE,
                    !.skip_pages = get_completed_pages(file),
                    !.page_paths = page_paths, !.launch = "ocr"]

\* _on_extraction_finished
on_extraction_finished(w, files, file) ==
  LET done == [w EXCEPT !.cache_dir_set = TRUE, !.is_processing = FALSE,
                        !.worker = "none"]
  IN IF done.auto_mode THEN on_continue_to_ocr(done, files, file)
     ELSE [done EXCEPT !.stack = "image_review"]

\* _auto_save_incremental: the output file after it
auto_save_incremental(w, file) ==
  IF w.current_pdf = "none" THEN file ELSE save_to_file(w.page_texts)

\* _on_page_completed, on MainWindow's fields
on_page_completed(w, page_num, text) ==
  [w EXCEPT !.page_texts = SetPageText(@, page_num, text)]

\* _on_page_error
on_page_error(w, page_num, error_msg) ==
  [w EXCEPT !.page_texts = SetPageText(@, page_num, ErrorMarker(error_msg))]

\* _save_output_file (_auto_save_to_outbox): the output file after it
save_output_file(w, file) ==
  IF w.page_texts = << >> \/ w.current_pdf = "none" THEN file
  ELSE save_to_file(w.page_texts)

\* _on_ocr_finished, on MainWindow's fields
on_ocr_finished(w, gone) ==
  LET done == [w EXCEPT !.is_processing = FALSE, !.worker = "none",
                        !.cancel_enabled = FALSE]
  IN IF done.auto_mode
     THEN process_next_in_queue([done EXCEPT !.auto_mode = FALSE], gone)
     ELSE IF done.page_texts # << >> /\ done.cache_dir_set
     THEN [done EXCEPT !.stack = "page_viewer"]
     ELSE done

\* _on_re_scan_page(page_num): `files` is the cache directory.  As at
\* main_window.py:331, the OCRWorker(...) call at main_window.py:424 passes no
\* user_prompt; the worker is taken as built from the one page path passed.
on_re_scan_page_while_busy(w, files, page_num) ==
  LET page_paths == list_cached_pages(files)
  IN IF ~w.cache_dir_set THEN w
     ELSE IF page_num < 1 \/ page_num > Len(page_paths) THEN w
     ELSE [w EXCEPT !.is_processing = TRUE, !.worker = "rescan",
                    !.skip_pages = {}, !.page_paths = << page_paths[page_num] >>,
                    !.rescan_page = page_num, !.launch = "rescan"]
on_re_scan_page(w, files, page_num) ==
  LET page_paths == list_cached_pages(files)
  IN IF ~w.cache_dir_set \/ w.is_processing THEN w
     ELSE IF page_num < 1 \/ page_num > Len(page_paths) THEN w
     ELSE [w EXCEPT !.is_processing = TRUE, !.worker = "rescan",
                    !.skip_pages = {}, !.page_paths = << page_paths[page_num] >>,
                    !.rescan_page = page_num, !.launch = "rescan"]

\* _on_re_scan_completed: self._page_texts[page_num - 1] = text raises
\* IndexError, before anything is saved, when the list is shorter
re_scan_completed_raises(w, page_num) == page_num > Len(w.page_texts)
on_re_scan_completed(w, page_num, text) ==
  IF re_scan_completed_raises(w, page_num) THEN w
  ELSE [w EXCEPT !.page_texts = [@ EXCEPT ![page_num] = text]]

\* _on_re_scan_finished
on_re_scan_finished(w) ==
  [w EXCEPT !.is_processing = FALSE, !.worker = "none"]

(***************************************************************************)
(* Signals (queued from the worker thread to the GUI thread)               *)
(***************************************************************************)
Signal(sig, page, total, text, msg) ==
  [sig |-> sig, page |-> page, total |-> total, text |-> text, msg |-> msg]
PageExtracted(page, total) == Signal("page_extracted", page, total, EmptyText, "")
ExtractionFinished(total) == Signal("extraction_finished", 0, total, EmptyText, "")
PageStarted(page, total) == Signal("page_started", page, total, EmptyText, "")
PageCompleted(page, total, text) == Signal("page_completed", page, total, text, "")
PageError(page, msg) == Signal("page_error", page, 0, EmptyText, msg)
ProcessingFinished == Signal("processing_finished", 0, 0, EmptyText, "")

\* the worker emits signals: they are queued for the GUI thread
Emit_ahead_of_queue(sigs) == queue' = sigs \o queue /\ events' = events \o sigs
Emit(sigs) == queue' = queue \o sigs /\ events' = events \o sigs
NoEmit == UNCHANGED << queue, events >>

\* the pages that have an image file in the cache directory
ImagePages(files) == {q \in 1..NumPages : page_image_path(q) \in files}

\* a handler ran and left MainWindow as w2: start the worker it created.
\* `ended` tells that the handler was the one of a worker's last signal, which
\* drops the worker (self._worker = None) and with it the record of its run
Launch(w2, ended) ==
  /\ mw' = IF w2.launch = "none" /\ ended
           THEN [w2 EXCEPT !.skip_pages = {}, !.page_paths = << >>,
                           !.rescan_page = 0]
           ELSE [w2 EXCEPT !.launch = "none"]
  /\ IF w2.launch = "none"
     THEN /\ UNCHANGED << w_pc, resume_file, w_live >>
          /\ calls' = IF ended /\ mw.worker = "rescan" THEN << >> ELSE calls
          /\ IF ended
             THEN /\ w_idx' = 0
                  /\ w_cancelled' = FALSE
                  /\ events' = << >>
                  /\ cancel_log' = NoCancel
                  /\ ext_run' = NoExtRun
             ELSE UNCHANGED << w_idx, w_cancelled, events, cancel_log, ext_run >>
     ELSE /\ w_pc' = IF w2.launch = "extraction" THEN "ext_loop" ELSE "ocr_loop"
          /\ w_idx' = IF w2.launch = "extraction" THEN 1 ELSE 0
          /\ w_cancelled' = FALSE
          /\ calls' = << >>
          /\ resume_file' = IF w2.launch = "ocr" THEN out_file ELSE NoFile
          /\ events' = << >>
          /\ w_live' = w_live + 1
          /\ cancel_log' = NoCancel
          /\ ext_run' = IF w2.launch = "extraction"
                        THEN [NoExtRun EXCEPT !.pre = ImagePages(cache_files)]
                        ELSE NoExtRun

(***************************************************************************)
(* Spec: user commands and queued signals on the GUI thread                *)
(***************************************************************************)
Init ==
  /\ VlmIdle
  /\ CacheIdle
  /\ cache_files = {}
  /\ PipelineIdle
  /\ LibIdle

idle_vars == << vlm_vars, cache_vars, lib_vars >>
worker_vars == << w_pc, w_idx, w_cancelled, w_live >>

\* toolbar "Open PDF" (enabled while not processing)
OnOpenPdf ==
  /\ ~mw.is_processing
  /\ \E pdf \in Pdfs : mw' = on_open_pdf(mw, pdf)
  /\ UNCHANGED << cache_files, out_file, worker_vars, queue, events,
                  run_hist, idle_vars >>

\* toolbar "Process" (enabled with a PDF loaded, while not processing)
OnProcess ==
  /\ ~mw.is_processing
  /\ mw.current_pdf # "none"
  /\ Launch(on_process(mw), FALSE)
  /\ UNCHANGED << cache_files, out_file, queue, last_ok_n, idle_vars >>

\* InboxMonitor.pdf_detected
OnInboxPdfDetected ==
  /\ Len(mw.inbox_queue) < MaxInbox
  /\ \E pdf \in Pdfs, gone \in 0..1 :
       Launch(on_inbox_pdf_detected(mw, pdf, gone), FALSE)
  /\ UNCHANGED << cache_files, out_file, queue, last_ok_n, idle_vars >>

\* ImageReviewWidget "Continue to OCR" (shown on the image review screen)
OnContinueClicked ==
  /\ mw.stack = "image_review"
  /\ mw.cache_dir_set
  /\ Launch(on_continue_to_ocr(mw, cache_files, out_file), FALSE)
  /\ UNCHANGED << cache_files, out_file, queue, last_ok_n, idle_vars >>

\* ExtractionWorker.cancel / OCRWorker.cancel: self._cancelled = True
cancel_toggles(cancelled) == ~cancelled
cancel(cancelled) == TRUE

\* ProcessingWidget "Cancel", connected to the worker's cancel(); the button
\* can be clicked any number of times while the stage runs
OnCancelClicked ==
  /\ mw.stack = "processing"
  /\ mw.cancel_enabled
  /\ w_pc \notin {"idle", "dead"}
  /\ w_cancelled' = cancel(w_cancelled)
  /\ cancel_log' = [n |-> IF cancel_log.n = 0 THEN 1 ELSE 2]
  /\ UNCHANGED << mw, cache_files, out_file, w_pc, w_idx, w_live, queue, events,
                  calls, last_ok_n, resume_file, ext_run, idle_vars >>

HeadIs(sig) == queue # << >> /\ Head(queue).sig = sig

\* _on_page_extracted, _on_page_started: progress display only
OnProgressSignal ==
  /\ HeadIs("page_extracted") \/ HeadIs("page_started")
  /\ queue' = Tail(queue)
  /\ UNCHANGED << mw, cache_files, out_file, worker_vars, events,
                  run_hist, idle_vars >>

OnExtractionFinished ==
  /\ HeadIs("extraction_finished")
  /\ queue' = Tail(queue)
  /\ Launch(on_extraction_finished(mw, cache_files, out_file), TRUE)
  /\ UNCHANGED << cache_files, out_file, last_ok_n, idle_vars >>

OnPageCompleted ==
  /\ HeadIs("page_completed")
  /\ mw.worker # "rescan"
  /\ queue' = Tail(queue)
  /\ LET w2 == on_page_completed(mw, Head(queue).page, Head(queue).text)
     IN /\ mw' = w2
        /\ out_file' = auto_save_incremental(w2, out_file)
  /\ UNCHANGED << cache_files, worker_vars, events, run_hist, idle_vars >>

OnPageError ==
  /\ HeadIs("page_error")
  /\ mw.worker # "rescan"
  /\ queue' = Tail(queue)
  /\ mw' = on_page_error(mw, Head(queue).page, Head(queue).msg)
  /\ UNCHANGED << cache_files, out_file, worker_vars, events, run_hist,
                  idle_vars >>

AllPagesOcred ==
  /\ Len(calls) = Len(mw.page_paths)
  /\ \A i \in 1..Len(calls) : calls[i].kind = "return"

\* the OCR worker's processing_finished is handled; `gones` are the numbers
\* of vanished files there may be at the head of the inbox queue
HandleOcrFinished(gones) ==
  /\ HeadIs("processing_finished")
  /\ mw.worker # "rescan"
  /\ queue' = Tail(queue)
  /\ out_file' = IF mw.auto_mode THEN save_output_file(mw, out_file) ELSE out_file
  /\ last_ok_n' = IF AllPagesOcred THEN Len(mw.page_paths) ELSE 0
  /\ \E gone \in gones : Launch(on_ocr_finished(mw, gone), TRUE)
  /\ UNCHANGED << cache_files, idle_vars >>
OnOcrFinished == HandleOcrFinished(0..1)

\* PageViewer "Re-Scan Page": re_scan_requested(current page), the viewer
\* showing the cached pages
OnReScanClicked ==
  /\ mw.stack = "page_viewer"
  /\ \E page_num \in 1..Len(list_cached_pages(cache_files)) :
       Launch(on_re_scan_page(mw, cache_files, page_num), FALSE)
  /\ UNCHANGED << cache_files, out_file, queue, last_ok_n, idle_vars >>

\* the re-scan worker's page_completed, connected to
\* lambda _, __, text: self._on_re_scan_completed(page_num, text)
OnReScanCompleted ==
  /\ HeadIs("page_completed")
  /\ mw.worker = "rescan"
  /\ queue' = Tail(queue)
  /\ LET w2 == on_re_scan_completed(mw, mw.rescan_page, Head(queue).text)
     IN /\ mw' = w2
        /\ out_file' = IF re_scan_completed_raises(mw, mw.rescan_page)
                       THEN out_file
                       ELSE auto_save_incremental(w2, out_file)
  /\ UNCHANGED << cache_files, worker_vars, events, run_hist, idle_vars >>

\* the re-scan worker's page_error, connected to
\* lambda _, err: self._on_page_error(page_num, err)
OnReScanError ==
  /\ HeadIs("page_error")
  /\ mw.worker = "rescan"
  /\ queue' = Tail(queue)
  /\ mw' = on_page_error(mw, mw.rescan_page, Head(queue).msg)
  /\ UNCHANGED << cache_files, out_file, worker_vars, events, run_hist,
                  idle_vars >>

\* the re-scan worker's processing_finished
OnReScanFinished ==
  /\ HeadIs("processing_finished")
  /\ mw.worker = "rescan"
  /\ queue' = Tail(queue)
  /\ Launch(on_re_scan_finished(mw), TRUE)
  /\ UNCHANGED << cache_files, out_file, last_ok_n, idle_vars >>

(***************************************************************************)
(* Spec: gui/workers.py, the worker thread                                 *)
(***************************************************************************)
\* "if self._cancelled: break" at the head of each loop iteration
loop_breaks_never(cancelled) == FALSE
loop_breaks(cancelled) == cancelled

\* for page_num in range(1, total + 1)
pages_left_exclusive(page_num, total) == page_num < total
pages_left(page_num, total) == page_num <= total

\* "if output.exists()" (ExtractionWorker.run, extract_single_page): only a
\* page without an image file is rasterized and written
needs_extract_always(files, page_num) == TRUE
needs_extract(files, page_num) == page_image_path(page_num) \notin files

\* self.page_extracted.emit(page_num, total), after the if/else
progress_signals_only_extracted(page_num, total, existed) ==
  IF existed THEN << >> ELSE << PageExtracted(page_num, total) >>
progress_signals(page_num, total, existed) == << PageExtracted(page_num, total) >>

\* extract_single_page raises: run() has no try/except, the thread ends
on_raster_failure_skips_page(page_num) == [pc |-> "ext_loop", idx |-> page_num + 1]
on_raster_failure(page_num) == [pc |-> "dead", idx |-> page_num]

\* ExtractionWorker.run, one loop iteration: the image exists and is kept,
\* or it is rasterized and written, or extract_single_page raises
ExtractPage ==
  /\ w_pc = "ext_loop"
  /\ ~loop_breaks(w_cancelled)
  /\ pages_left(w_idx, NumPages)
  /\ \/ /\ ~needs_extract(cache_files, w_idx)
        /\ UNCHANGED << cache_files, ext_run >>
        /\ Emit(progress_signals(w_idx, NumPages, TRUE))
        /\ w_idx' = w_idx + 1
        /\ UNCHANGED << w_pc, w_live >>
     \/ /\ needs_extract(cache_files, w_idx)
        /\ cache_files' = cache_files \cup {page_image_path(w_idx)}
        /\ ext_run' = [ext_run EXCEPT !.written = @ \cup {w_idx}]
        /\ Emit(progress_signals(w_idx, NumPages,
                                 page_image_path(w_idx) \in cache_files))
        /\ w_idx' = w_idx + 1
        /\ UNCHANGED << w_pc, w_live >>
     \/ /\ needs_extract(cache_files, w_idx)
        /\ LET after == on_raster_failure(w_idx)
           IN /\ w_pc' = after.pc
              /\ w_idx' = after.idx
              /\ w_live' = IF after.pc = "dead" THEN w_live - 1 ELSE w_live
        /\ ext_run' = [ext_run EXCEPT !.failed = w_idx]
        /\ NoEmit
        /\ UNCHANGED cache_files
  /\ UNCHANGED << mw, out_file, w_cancelled, ocr_hist, cancel_log, idle_vars >>

\* ExtractionWorker.run: the loop ends (break on cancel, or all pages done)
ExtractFinish ==
  /\ w_pc = "ext_loop"
  /\ loop_breaks(w_cancelled) \/ ~pages_left(w_idx, NumPages)
  /\ Emit(<< ExtractionFinished(NumPages) >>)
  /\ w_pc' = "idle"
  /\ w_live' = w_live - 1
  /\ cancel_log' = NoCancel
  /\ UNCHANGED << mw, cache_files, out_file, w_idx, w_cancelled,
                  ocr_hist, ext_run, idle_vars >>

\* what an attempt of the OCR run meets at the VLM endpoint: one outcome for
\* each way process_image ends (it returns, raises a typed configuration
\* error, or raises after its retries)
OcrOutcomes ==
  {NetTimeout, Response(401, NoBody), Response(200, ContentBody(TextA))}
OcrOutcomeSeqs == [1..AttemptCount -> OcrOutcomes]
\* the ways client.process_image can end for a page
OcrResults == {process_image(outcomes) : outcomes \in OcrOutcomeSeqs}

CallRecord(page, res) ==
  [page |-> page, kind |-> res.kind, exc |-> res.exc, msg |-> res.msg]

\* "except Exception as exc" around _ocr_single_page: what is emitted for a
\* call that raised, and whether the loop goes on
error_signals_none(page_num, res) == << >>
error_signals(page_num, res) == << PageError(page_num, res.msg) >>
continues_after_error_never(res) == FALSE
continues_after_error(res) == TRUE

\* OCRWorker._process_pages, loop head: cancel check, page_started, skip
OcrPageStart ==
  /\ w_pc = "ocr_loop"
  /\ ~loop_breaks(w_cancelled)
  /\ w_idx < Len(mw.page_paths)
  /\ LET page_num == w_idx + 1
         total == Len(mw.page_paths)
     IN IF page_num \in mw.skip_pages
        THEN /\ Emit(<< PageStarted(page_num, total),
                        PageCompleted(page_num, total, EmptyText) >>)
             /\ w_idx' = w_idx + 1
             /\ UNCHANGED w_pc
        ELSE /\ Emit(<< PageStarted(page_num, total) >>)
             /\ w_pc' = "ocr_call"
             /\ UNCHANGED w_idx
  /\ UNCHANGED << mw, cache_files, out_file, w_cancelled, w_live, run_hist,
                  idle_vars >>

\* OCRWorker._process_pages: _ocr_single_page returns or raises
OcrCall ==
  /\ w_pc = "ocr_call"
  /\ \E res \in OcrResults :
       LET page_num == w_idx + 1
           total == Len(mw.page_paths)
       IN /\ calls' = Append(calls, CallRecord(page_num, res))
          /\ IF res.kind = "return"
             THEN /\ Emit(<< PageCompleted(page_num, total, res.text) >>)
                  /\ w_pc' = "ocr_loop"
                  /\ w_idx' = w_idx + 1
             ELSE /\ Emit(error_signals(page_num, res))
                  /\ IF continues_after_error(res)
                     THEN w_pc' = "ocr_loop" /\ w_idx' = w_idx + 1
                     ELSE w_pc' = "ocr_end" /\ UNCHANGED w_idx
  /\ UNCHANGED << mw, cache_files, out_file, w_cancelled, w_live, last_ok_n,
                  resume_file, cancel_log, ext_run, idle_vars >>

\* OCRWorker.run: "finally: self.processing_finished.emit()"
OcrFinish ==
  /\ \/ w_pc = "ocr_loop" /\ (loop_breaks(w_cancelled) \/ w_idx >= Len(mw.page_paths))
     \/ w_pc = "ocr_end"
  /\ Emit(<< ProcessingFinished >>)
  /\ w_pc' = "idle"
  /\ w_live' = w_live - 1
  /\ cancel_log' = NoCancel
  /\ UNCHANGED << mw, cache_files, out_file, w_idx, w_cancelled,
                  ocr_hist, ext_run, idle_vars >>

Next ==
  \/ OnOpenPdf
  \/ OnProcess
  \/ OnInboxPdfDetected
  \/ OnContinueClicked
  \/ OnCancelClicked
  \/ OnProgressSignal
  \/ OnExtractionFinished
  \/ OnPageCompleted
  \/ OnPageError
  \/ OnOcrFinished
  \/ OnReScanClicked
  \/ OnReScanCompleted
  \/ OnReScanError
  \/ OnReScanFinished
  \/ ExtractPage
  \/ ExtractFinish
  \/ OcrPageStart
  \/ OcrCall
  \/ OcrFinish

Spec == Init /\ [][Next]_vars

(***************************************************************************)
(* SpecLive: Spec with the scheduling the program runs under.  The worker  *)
(* thread, once started, keeps running (QThread.start; every VLM request   *)
(* is bounded by its timeout), and the GUI thread's event loop delivers    *)
(* every queued signal.  Nothing is assumed of the user or of the inbox.   *)
(***************************************************************************)
WorkerStep ==
  ExtractPage \/ ExtractFinish \/ OcrPageStart \/ OcrCall \/ OcrFinish
HandleSignal ==
  \/ OnProgressSignal
  \/ OnExtractionFinished
  \/ OnPageCompleted
  \/ OnPageError
  \/ OnOcrFinished
  \/ OnReScanCompleted
  \/ OnReScanError
  \/ OnReScanFinished

SpecLive == Init /\ [][Next]_vars /\ WF_vars(WorkerStep) /\ WF_vars(HandleSignal)

(***************************************************************************)
(* SpecQueue: the inbox queue, with the files of the inbox directory, the  *)
(* InboxMonitor's scans and the configuration as state.  The PDFs have the *)
(* same pages; whether a queued file still exists is read from inbox_dir.  *)
(***************************************************************************)
\* Path(str(pdf_path)): the path of inbox file f as MainWindow holds it
PdfNames == << "1.pdf", "2.pdf", "3.pdf", "4.pdf" >>
PathOf(f) == PdfNames[f]
FileOf(pdf_path) == CHOOSE f \in 1..Len(PdfNames) : PdfNames[f] = pdf_path

\* pdf_path.exists() down the queue: how many entries at its head, in a row,
\* name a file that is no longer in the inbox
RECURSIVE vanished_at_head(_, _)
vanished_at_head(inbox_queue, files) ==
  IF inbox_queue = << >> \/ FileOf(Head(inbox_queue)) \in files THEN 0
  ELSE 1 + vanished_at_head(Tail(inbox_queue), files)

\* "for pdf_path in new_files: self.pdf_detected.emit(pdf_path)", the signal
\* being connected to _on_inbox_pdf_detected in the same thread
RECURSIVE emit_new_files(_, _, _)
emit_new_files(w, new_files, files) ==
  IF new_files = << >> THEN w
  ELSE LET pdf == PathOf(Head(new_files))
           gone == vanished_at_head(Append(w.inbox_queue, pdf), files)
       IN emit_new_files(on_inbox_pdf_detected(w, pdf, gone),
                         Tail(new_files), files)

\* InboxMonitor._emit_new_files (directoryChanged, or the 5 s poll), when the
\* scan finds new files
EmitNewFiles ==
  /\ LET new_files == scan_new_files(scanner.seen, inbox_dir)
     IN /\ new_files # << >>
        /\ scanner' = [scanner EXCEPT !.seen = scan_seen(@, new_files)]
        /\ Launch(emit_new_files(mw, new_files, inbox_dir.files), FALSE)
  /\ UNCHANGED << cache_files, out_file, queue, last_ok_n, vlm_vars,
                  cache_vars, lib_call, join, inbox_dir >>

\* _on_settings: the dialog is accepted with the model name or the API URL
\* set or emptied, the inbox directory left as it is
OnSettings ==
  /\ ~mw.is_processing
  /\ mw' = [mw EXCEPT !.config_ok = ~@]
  /\ UNCHANGED << cache_files, out_file, worker_vars, queue, events,
                  run_hist, idle_vars >>

\* _on_ocr_finished, the files of the queue looked up in the inbox
OnOcrFinishedInbox ==
  HandleOcrFinished({vanished_at_head(mw.inbox_queue, inbox_dir.files)})

NextQueue ==
  \/ FileArrives
  \/ FileRemoved
  \/ EmitNewFiles
  \/ OnSettings
  \/ OnOpenPdf
  \/ OnProcess
  \/ OnProgressSignal
  \/ OnExtractionFinished
  \/ OnPageCompleted
  \/ OnPageError
  \/ OnOcrFinishedInbox
  \/ ExtractPage
  \/ ExtractFinish
  \/ OcrPageStart
  \/ OcrCall
  \/ OcrFinish

SpecQueue == Init /\ [][NextQueue]_vars

(***************************************************************************)
(* SpecExtract: manual extraction runs over every cache of page images     *)
(***************************************************************************)
InitExtract ==
  /\ VlmIdle
  /\ CacheIdle
  /\ PipelineIdle
  /\ LibIdle
  /\ cache_files \in SUBSET {page_image_path(q) : q \in 1..NumPages}

NextExtract ==
  \/ OnOpenPdf
  \/ OnProcess
  \/ OnCancelClicked
  \/ OnProgressSignal
  \/ OnExtractionFinished
  \/ ExtractPage
  \/ ExtractFinish

SpecExtract == InitExtract /\ [][NextExtract]_vars

(***************************************************************************)
(* Claims on VLMClient.process_image (SpecVLM)                             *)
(***************************************************************************)
Called == vlm_out.kind # "none"
FirstCode(codes) == vlm_in[1].net = "resp" /\ vlm_in[1].code \in codes

\* C5: when the first response is 401, 403 or 404, the call sends exactly one
\* request and raises the typed error at once: no retry, no backoff sleep.
C5_AuthNotFoundNoRetry ==
  (Called /\ FirstCode({401, 403, 404})) =>
    /\ vlm_out.kind = "raise"
    /\ vlm_out.exc = IF vlm_in[1].code = 404 THEN "VLMModelNotFoundError"
                     ELSE "VLMAuthError"
    /\ vlm_out.trace = << "request" >>
C5_Witness ==
  Called /\ FirstCode({401}) /\ vlm_out.exc = "VLMAuthError" /\ Requests(vlm_out) = 1

\* C6: when every attempt times out, the call sends exactly two requests (one
\* retry, after one backoff sleep), then raises; there is no third request.
C6_TimeoutTwoRequests ==
  (Called /\ \A i \in DOMAIN vlm_in : vlm_in[i] = NetTimeout) =>
    /\ vlm_out.kind = "raise"
    /\ vlm_out.trace = << "request", "sleep", "request" >>
C6_Witness ==
  /\ Called
  /\ \A i \in DOMAIN vlm_in : vlm_in[i] = NetTimeout
  /\ Requests(vlm_out) = 2
  /\ vlm_out.kind = "raise"

\* C7: a first attempt that fails with a Client error (4xx other than 401, 403,
\* 404) or a Protocol error (success status, body without
\* choices[0].message.content) fails at once: one request, no backoff sleep.
IsClientOrProtocolFailure(o) ==
  /\ o.net = "resp"
  /\ \/ o.code \in {400, 429}
     \/ o.code = 200 /\ o.body.kind = "missing"
C7_ClientProtocolNoRetry ==
  (Called /\ IsClientOrProtocolFailure(vlm_in[1])) =>
    /\ vlm_out.kind = "raise"
    /\ vlm_out.trace = << "request" >>

\* C8: when both attempts fail with Timeout/Transient errors, the error raised
\* is the generic VLMError (no typed kind) and its message carries the error
\* of the last attempt, not of the first.
IsTimeoutOrTransient(o) ==
  \/ o.net \in {"timeout", "conn"}
  \/ o.net = "resp" /\ o.code >= 500
IsNonRetryable(o) ==
  \/ o.net = "resp" /\ o.code \in {401, 403, 404}
  \/ IsClientOrProtocolFailure(o)
FirstAttemptSucceeds(o) ==
  o.net = "resp" /\ o.code = 200 /\ o.body.kind = "content"
C31_BackoffOnlyBetweenAttempts ==
  Called =>
    /\ Sleeps(vlm_out) <= 1
    /\ \A i \in 1..Len(vlm_out.trace) :
         vlm_out.trace[i] = "sleep" =>
           /\ i = 2
           /\ Len(vlm_out.trace) = 3
           /\ vlm_out.trace[1] = "request"
           /\ vlm_out.trace[3] = "request"
    /\ Requests(vlm_out) = 2 => Sleeps(vlm_out) = 1
    /\ (FirstAttemptSucceeds(vlm_in[1]) \/ IsNonRetryable(vlm_in[1])) =>
         Sleeps(vlm_out) = 0

\* a <think>...</think> block, its tags in either case
IsOpenTagAnyCase(l) == l \in {Tag("<think>"), Tag("<THINK>")}
IsCloseTagAnyCase(l) == l \in {Tag("</think>"), Tag("</THINK>")}
HasThinkBlock(text) ==
  \E i \in 1..Len(text) : \E j \in (i + 1)..Len(text) :
    IsOpenTagAnyCase(text[i]) /\ IsCloseTagAnyCase(text[j])

\* C28: the text a successful process_image call returns contains no
\* <think>...</think> block, whether the tags of the response were written in
\* lower or in upper case, and whether the block spans one line or several.
C28_NoThinkBlockReturned ==
  (Called /\ vlm_out.kind = "return") => ~HasThinkBlock(vlm_out.text)

\* C30: whatever each attempt meets, a process_image call ends by returning
\* text or by raising an error, after at least one and at most two requests.
C30_AtMostTwoRequests ==
  vlm_in # << >> =>
    /\ vlm_out.kind \in {"return", "raise"}
    /\ vlm_out.kind = "raise" <=> vlm_out.exc # "None"
    /\ Requests(vlm_out) \in 1..2
    /\ Len(vlm_out.trace) <= 3
C30_Witness ==
  /\ vlm_in # << >>
  /\ vlm_in[1] = NetConnError
  /\ vlm_in[2] = Response(200, ContentBody(TextA))
  /\ vlm_out.kind = "return"
  /\ Requests(vlm_out) = 2

(***************************************************************************)
(* Claims on the resume set (SpecCache)                                    *)
(***************************************************************************)
\* C10: the resume set is exactly the pages that have an image artifact and a
\* text artifact that exists and is non-empty; a page whose text artifact
\* exists but is empty is not in it.
C10_ResumeSetNonEmptyText ==
  resume_done =>
    resume_out = {p \in CachePages :
                    /\ page_image_path(p) \in cache_files
                    /\ page_text_path(p) \in cache_files
                    /\ cache_text[p] # EmptyText}

Last(seq) == seq[Len(seq)]
OcrRunning == mw.worker = "ocr"
\* the OCR run has ended and MainWindow has handled its processing_finished
OcrRunHandled == mw.worker = "none" /\ calls # << >>
FailedCall(c) == c.kind = "raise"
ExhaustedCall(c) == c.kind = "raise" /\ c.exc = "VLMError"
ConfigErrorCall(c) ==
  c.kind = "raise" /\ c.exc \in {"VLMAuthError", "VLMModelNotFoundError"}

\* the text saved for page p in an output file: the lines between the
\* separator of page p (the start of the file for page 1) and the next one
SepPositions(content) == {j \in 1..Len(content) : content[j].t = "sep"}
HasPersistedText(file, p) ==
  /\ file.exists
  /\ p = 1 \/ \E j \in 1..Len(file.content) : file.content[j] = SepLine(p)
PersistedText(file, p) ==
  LET c == file.content
      start == IF p = 1 THEN 0
               ELSE CHOOSE j \in 1..Len(c) :
                      /\ c[j] = SepLine(p)
                      /\ \A k \in 1..(j - 1) : c[k] # SepLine(p)
      later == {j \in SepPositions(c) : j > start}
      stop == IF later = {} THEN Len(c) + 1
              ELSE CHOOSE j \in later : \A k \in later : j <= k
  IN SubSeq(c, start + 1, stop - 1)

\* C1: after an OCR run that OCRed every one of the n cached pages, the next
\* OCR run over the same n pages has the skip set {1..n} and calls the VLM
\* for no page.
C1_ResumeIdempotent ==
  (OcrRunning /\ last_ok_n > 0 /\ Len(mw.page_paths) = last_ok_n) =>
    /\ mw.skip_pages = 1..last_ok_n
    /\ calls = << >>

\* C2: when the VLM call for page k fails after its retries are exhausted, a
\* page_error signal for page k is emitted and the loop goes on to page k+1;
\* and at the loop head, unless cancelled or past the last page, the next
\* thing the worker does is emit page_started for that page.
C2_StepAfterExhaustedCall ==
  (w_pc = "ocr_call" /\ calls' # calls /\ ExhaustedCall(Last(calls'))) =>
    /\ queue' = Append(queue, PageError(w_idx + 1, Last(calls').msg))
    /\ w_pc' = "ocr_loop"
    /\ w_idx' = w_idx + 1
C2_StepAtLoopHead ==
  (/\ w_pc = "ocr_loop"
   /\ ~w_cancelled
   /\ w_idx < Len(mw.page_paths)
   /\ w_pc' # w_pc \/ w_idx' # w_idx) =>
    /\ Len(queue') > Len(queue)
    /\ queue'[Len(queue) + 1] = PageStarted(w_idx + 1, Len(mw.page_paths))
C2_TransientErrorContinues ==
  [][C2_StepAfterExhaustedCall /\ C2_StepAtLoopHead]_vars
C2_Witness ==
  \E i \in 1..Len(calls) :
    /\ ExhaustedCall(calls[i])
    /\ \E j \in 1..Len(queue) : queue[j] = PageError(calls[i].page, calls[i].msg)
    /\ w_pc = "ocr_call"
    /\ w_idx + 1 = calls[i].page + 1

\* C3: when the VLM call for page k fails with AuthError or NotFoundError the
\* run stops: no VLM request is sent for any page after k.
C3_ConfigErrorStopsRun ==
  \A i \in 1..Len(calls) : \A j \in 1..Len(calls) :
    (i < j /\ ConfigErrorCall(calls[i])) => calls[j].page <= calls[i].page

\* C4: once the OCR stage has finished, the persisted text of every page whose
\* OCR failed in the run is the error marker carrying the failure message.
C4_FailedPagesPersistMarker ==
  (OcrRunHandled /\ queue = << >>) =>
    \A i \in 1..Len(calls) :
      FailedCall(calls[i]) =>
        /\ HasPersistedText(out_file, calls[i].page)
        /\ PersistedText(out_file, calls[i].page) = ErrorMarker(calls[i].msg)

\* C9: for every page of the resume (skip) set, no VLM call is made and the
\* page_completed signal emitted for it carries the text the page already
\* had in the output, not an empty or placeholder string.
C9_SkippedPageKeepsText ==
  OcrRunning =>
    /\ \A i \in 1..Len(calls) : calls[i].page \notin mw.skip_pages
    /\ \A j \in 1..Len(queue) :
         (queue[j].sig = "page_completed" /\ queue[j].page \in mw.skip_pages) =>
           queue[j].text = PersistedText(resume_file, queue[j].page)

(***************************************************************************)
(* Claims on the worker runs (Spec, SpecExtract)                           *)
(***************************************************************************)
IsProgress(e) == e.sig = "page_extracted"
IsFinished(e) == e.sig \in {"extraction_finished", "processing_finished"}
ProgressEvents == SelectSeq(events, IsProgress)
FinishedAt == {i \in 1..Len(events) : IsFinished(events[i])}
WorkerRunning == w_pc \in {"ext_loop", "ocr_loop", "ocr_call", "ocr_end"}
ExtractionRun == mw.worker = "extraction"

\* C12: while a stage runs no stage-finished signal has been emitted, and once
\* its run has ended, however it ended, exactly one has been, as the last
\* signal of the run.
C12_FinishedExactlyOnceLast ==
  /\ WorkerRunning => FinishedAt = {}
  /\ (w_pc = "dead" \/ (w_pc = "idle" /\ events # << >>)) =>
       FinishedAt = {Len(events)}

\* C13: in an extraction run the progress signals emitted so far are
\* (1, total), (2, total), ... one for each page processed so far, whether
\* its image was written or was found in the cache.
C13_ProgressAfterEachPage ==
  ExtractionRun =>
    /\ Len(ProgressEvents) = w_idx - 1
    /\ \A i \in 1..Len(ProgressEvents) :
         ProgressEvents[i] = PageExtracted(i, NumPages)
C13_Witness ==
  /\ ExtractionRun
  /\ Len(ProgressEvents) = NumPages
  /\ ext_run.pre # {}
  /\ ext_run.written # {}

\* C14: the terminal signal of an extraction run carries the number of pages
\* completed in the run, also when the run was cancelled.
C14_TerminalCarriesCompleted ==
  \A i \in FinishedAt :
    events[i].sig = "extraction_finished" =>
      events[i].total = Len(ProgressEvents)

\* C15: when the rasterization of page p raises, the run stops: no page
\* after p is written, and no progress signal is emitted for p or a later page.
C15_RasterFailureStopsRun ==
  ext_run.failed # 0 =>
    /\ w_pc = "dead"
    /\ \A q \in ext_run.written : q < ext_run.failed
    /\ \A i \in 1..Len(events) :
         IsProgress(events[i]) => events[i].page < ext_run.failed
    /\ \A q \in ImagePages(cache_files) \ ext_run.pre : q < ext_run.failed
C15_Witness ==
  /\ ext_run.failed = NumPages
  /\ w_pc = "dead"
  /\ ext_run.written # {}
  /\ Len(ProgressEvents) = NumPages - 1

\* C16: with cancel() called while the VLM call for page k is in flight, the
\* next signal of the worker is page k's page_completed or page_error, and
\* after it the only signal is processing_finished.
C16_StepInFlight ==
  (w_cancelled /\ w_pc = "ocr_call" /\ events' # events) =>
    \E e \in {events'[Len(events')]} :
      /\ events' = Append(events, e)
      /\ e.sig \in {"page_completed", "page_error"}
      /\ e.page = w_idx + 1
C16_StepAfterCancel ==
  (w_cancelled /\ w_pc = "ocr_loop" /\ events' # events) =>
    events' = Append(events, ProcessingFinished)
C16_CancelInFlightFinishesPage ==
  [][C16_StepInFlight /\ C16_StepAfterCancel]_vars
C16_Witness ==
  /\ w_cancelled
  /\ cancel_log.n > 0
  /\ w_pc = "ocr_call"
  /\ w_idx + 1 < Len(mw.page_paths)
  /\ Last(events) = PageStarted(w_idx + 1, Len(mw.page_paths))

\* C17: a second cancel() on a running stage changes nothing: the worker's
\* flag, position and signals are as the first call left them.
C17_SecondCancelChangesNothing ==
  [][(cancel_log.n = 1 /\ cancel_log'.n = 2) =>
       /\ w_cancelled' = w_cancelled
       /\ UNCHANGED << w_pc, w_idx, w_live, events, queue, mw, cache_files,
                       out_file >>]_vars
C17_Witness == cancel_log.n = 2 /\ w_cancelled /\ WorkerRunning

\* C18: an extraction run writes no image that existed when the run started:
\* the images it wrote and the images it found are disjoint, and together
\* they are the images of the cache.
C18_ExistingImagesKept ==
  ExtractionRun =>
    /\ ext_run.written \cap ext_run.pre = {}
    /\ ImagePages(cache_files) = ext_run.pre \cup ext_run.written
C18_Witness ==
  /\ ExtractionRun
  /\ ext_run.written # {}
  /\ \E q \in ext_run.pre : q < w_idx

\* C19: when an extraction run ends without cancellation or failure, the
\* cache holds an image for every page 1..total, whatever it held before.
C19_CompleteRunNoGaps ==
  (ExtractionRun /\ w_pc = "idle" /\ ~w_cancelled /\ ext_run.failed = 0) =>
    ImagePages(cache_files) = 1..NumPages
C19_Witness ==
  /\ ExtractionRun
  /\ w_pc = "idle"
  /\ ~w_cancelled
  /\ ext_run.pre # {}
  /\ 1 \notin ext_run.pre
  /\ ImagePages(cache_files) = 1..NumPages

\* C20: at most one worker thread (extraction, OCR, re-scan) is alive at any
\* time.
C20_OneWorkerAtATime == w_live <= 1
C20_Witness ==
  /\ w_live = 1
  /\ mw.worker = "rescan"
  /\ mw.inbox_queue # << >>

(***************************************************************************)
(* Claims on the events of an OCR run (Spec)                               *)
(***************************************************************************)
OcrWorkerRun == mw.worker \in {"ocr", "rescan"}
IsPageTerminal(e) == e.sig \in {"page_completed", "page_error"}

\* C21: every page_completed signal of an OCR run names a page number whose
\* image file is in the cache directory.
C21_TextOnlyForCachedImage ==
  \A i \in 1..Len(events) :
    events[i].sig = "page_completed" =>
      page_image_path(events[i].page) \in cache_files
C21_Witness ==
  /\ mw.worker = "ocr"
  /\ \E i \in 1..Len(events) :
       /\ events[i].sig = "page_completed"
       /\ events[i].text # EmptyText
       /\ events[i].page = NumPages
       /\ page_image_path(events[i].page) \in cache_files

\* C22: the signals of an OCR run over n pages are page_started(1),
\* terminal(1), page_started(2), terminal(2), ... where terminal(k) is one
\* page_completed or one page_error for page k; processing_finished comes
\* last, and in a run that was not cancelled only after terminal(n).
C22_PagesInOrderOneTerminal ==
  OcrWorkerRun =>
    \A i \in 1..Len(events) :
      LET k == (i + 1) \div 2
          n == Len(mw.page_paths)
      IN IF IsFinished(events[i])
         THEN /\ i = Len(events)
              /\ i % 2 = 1
              /\ ~w_cancelled => i = 2 * n + 1
         ELSE IF i % 2 = 1
         THEN k <= n /\ events[i] = PageStarted(k, n)
         ELSE IsPageTerminal(events[i]) /\ events[i].page = k
C22_Witness ==
  /\ mw.worker = "ocr"
  /\ ~w_cancelled
  /\ Len(events) = 2 * NumPages + 1
  /\ Last(events) = ProcessingFinished
  /\ \E i \in 1..Len(events) : events[i].sig = "page_error"
  /\ \E i \in 1..Len(events) : events[i].sig = "page_completed"

(***************************************************************************)
(* Claims on the page cache functions (SpecList)                           *)
(***************************************************************************)
ListedImagePages == {p \in ListPages : page_image_path(p) \in cache_files}

\* C23: list_cached_pages returns the image of every page that has one, in
\* increasing page order, pages above 999 included; when the images are those
\* of pages 1..n the i-th path is page i's image.
C23_EveryImageListedInOrder ==
  lib_call.fn = "list_cached_pages" =>
    LET listing == lib_call.listing
    IN /\ \A p \in ListedImagePages :
            \E i \in 1..Len(listing) : listing[i] = page_image_path(p)
       /\ \A i \in 1..Len(listing) : \A j \in 1..Len(listing) :
            i < j => listing[i].num < listing[j].num
       /\ ListedImagePages = 1..Cardinality(ListedImagePages) =>
            \A i \in 1..Len(listing) : listing[i] = page_image_path(i)

\* C24: load_page_text always returns: the empty string when the text file is
\* absent, and the empty string when the file exists but cannot be read.
C24_LoadPageTextNeverRaises ==
  lib_call.fn = "load_page_text" =>
    /\ lib_call.kind = "return"
    /\ page_text_path(lib_call.page) \notin cache_files =>
         lib_call.text = EmptyText
    /\ lib_call.readable # "ok" => lib_call.text = EmptyText

(***************************************************************************)
(* Claims on BookAssembler (SpecAssemble, SpecJoin)                        *)
(***************************************************************************)
\* the lines of the assembled text that come before the text of page i
RECURSIVE PartStart(_, _)
PartStart(pages, i) ==
  IF i = 1 THEN 0 ELSE PartStart(pages, i - 1) + Len(pages[i - 1]) + 1

\* C25: assemble of N >= 1 page texts is the texts in order with N - 1
\* separators inserted, the one before page i (i >= 2) carrying the number i;
\* assemble of one text is that text and assemble of no text is empty.
C25_AssembleSeparators ==
  lib_call.fn = "assemble" =>
    LET pages == lib_call.pages
        r == lib_call.text
        N == Len(pages)
    IN /\ N = 0 => r = << >>
       /\ N = 1 => r = pages[1]
       /\ N >= 1 =>
            /\ Len(r) = PartStart(pages, N) + Len(pages[N])
            /\ \A i \in 1..N :
                 SubSeq(r, PartStart(pages, i) + 1,
                        PartStart(pages, i) + Len(pages[i])) = pages[i]
            /\ \A i \in 2..N : r[PartStart(pages, i)] = SepLine(i)
            /\ Cardinality(SepPositions(r)) = N - 1
C25_Witness ==
  /\ lib_call.fn = "assemble"
  /\ Len(lib_call.pages) >= 3
  /\ lib_call.pages[1] # EmptyText
  /\ lib_call.pages[2] = EmptyText
  /\ Cardinality(SepPositions(lib_call.text)) = Len(lib_call.pages) - 1

FourNewlines == << "\n", "\n", "\n", "\n" >>
EndsWithHyphen(s) == EndsWith(s, << "-" >>)
EndsWithEllipsis(s) == EndsWith(s, << ".", ".", "." >>)
EndsWithTerminator(s) == s # << >> /\ s[Len(s)] \in {".", "?", "!"}

\* C26: at a page boundary where the accumulated text ends with a hyphen, the
\* result is the accumulated text without that one hyphen, directly followed
\* by the next page; also when a . ? ! : ; stands before the hyphen.
C26_HyphenJoinsDirectly ==
  (join.steps > 0 /\ EndsWithHyphen(join.left)) =>
    join.result = SubSeq(join.left, 1, Len(join.left) - 1) \o join.right
C26_Witness ==
  /\ join.steps > 0
  /\ EndsWith(join.left, << ".", "-" >>)
  /\ join.right = << "w" >>
  /\ join.result = SubSeq(join.left, 1, Len(join.left) - 1) \o << "w" >>

\* C27: a page boundary is joined with four newlines exactly when the
\* accumulated text ends with . ? or ! but not with "..."; a text ending with
\* "..." and every other text not ending with a hyphen is joined with one
\* space.
C27_FourNewlinesIffTerminator ==
  join.steps > 0 =>
    LET four == join.left \o FourNewlines \o join.right
        one == join.left \o << " " >> \o join.right
    IN /\ join.result = four <=>
            (EndsWithTerminator(join.left) /\ ~EndsWithEllipsis(join.left))
       /\ EndsWithEllipsis(join.left) => join.result = one
       /\ (~EndsWithHyphen(join.left) /\ ~EndsWithTerminator(join.left)) =>
            join.result = one
C27_Witness ==
  /\ join.steps > 0
  /\ EndsWithEllipsis(join.left)
  /\ join.result = join.left \o << " ", "w" >>

(***************************************************************************)
(* Claims on InboxScanner (SpecInbox)                                      *)
(***************************************************************************)
\* C29: a scan returns, once each and in name order, exactly the files
\* present that no earlier scan returned and no mark_seen named since the last
\* reset; the scan right after a reset returns every file present.
C29_ScanReturnsEachFileOnce ==
  scanner.last.called =>
    LET scan == scanner.last
    IN /\ Range(scan.result) = scan.present \ scan.given
       /\ \A i \in 1..Len(scan.result) : \A j \in 1..Len(scan.result) :
            i < j => scan.result[i] < scan.result[j]
       /\ scan.prev = "reset" => Range(scan.result) = scan.present
C29_Witness ==
  /\ scanner.last.called
  /\ scanner.last.result # << >>
  /\ scanner.last.present \cap scanner.last.given # {}
  /\ scanner.last.prev = "scan"

(***************************************************************************)
(* Claims on the re-scan of one page (Spec)                                *)
(***************************************************************************)
\* C32: a re-scan of page N runs the worker on page N's image alone with an
\* empty resume set, and the step that handles its page_completed puts the
\* new text in page N's slot and leaves the text of every other page as it was.
C32_ReScanReplacesOnlyPageN ==
  [][(mw.worker = "rescan" /\ HeadIs("page_completed") /\ queue' = Tail(queue)) =>
       /\ mw.skip_pages = {}
       /\ mw.page_paths = << page_image_path(mw.rescan_page) >>
       /\ Len(mw'.page_texts) >= mw.rescan_page
       /\ Len(mw'.page_texts) >= Len(mw.page_texts)
       /\ mw'.page_texts[mw.rescan_page] = Head(queue).text
       /\ \A q \in (1..Len(mw.page_texts)) \ {mw.rescan_page} :
            mw'.page_texts[q] = mw.page_texts[q]
    ]_vars

(***************************************************************************)
(* Claims on save_to_file followed by get_completed_pages (SpecAssemble)   *)
(***************************************************************************)
HasSeparatorLine(text) == \E j \in 1..Len(text) : text[j].t = "sep"

\* C33: for an output file written by save_to_file from the texts of pages
\* 1..N, none of which holds a separator-like line, get_completed_pages
\* returns exactly {1..N}, page 1 included.
C33_CompletedPagesOfSavedOutput ==
  (/\ lib_call.fn = "get_completed_pages"
   /\ \A i \in 1..Len(lib_call.pages) : ~HasSeparatorLine(lib_call.pages[i])) =>
    lib_call.found = 1..Len(lib_call.pages)

(***************************************************************************)
(* Claims on the cache over several extraction runs (Spec)                 *)
(***************************************************************************)
\* C34: starting from an empty cache, after any sequence of extraction runs
\* (completed, cancelled or failed at any page) the cached images are those
\* of pages 1..k for some k; so the i-th file of the sorted listing, and the
\* i-th page path of an OCR run, is the image of page i.
C34_CachedImagesArePrefix ==
  LET listing == list_cached_pages(cache_files)
  IN /\ ImagePages(cache_files) = 1..Cardinality(ImagePages(cache_files))
     /\ Len(listing) = Cardinality(cache_files)
     /\ \A i \in 1..Len(listing) :
          listing[i] = page_image_path(i) /\ get_page_number(listing[i]) = i
     /\ mw.worker = "ocr" =>
          \A i \in 1..Len(mw.page_paths) : mw.page_paths[i] = page_image_path(i)
     /\ \A i \in 1..Len(calls) :
          mw.worker = "ocr" =>
            get_page_number(mw.page_paths[calls[i].page]) = calls[i].page
\* an OCR run calls the VLM on the images a cancelled extraction left
C34_Witness ==
  /\ mw.worker = "ocr"
  /\ calls # << >>
  /\ Cardinality(ImagePages(cache_files)) \in 1..(NumPages - 1)
  /\ Len(mw.page_paths) = Cardinality(ImagePages(cache_files))

(***************************************************************************)
(* Claims on what a resumed OCR run leaves of earlier results (Spec)       *)
(***************************************************************************)
\* the pages the running OCR worker has skipped so far
SkippedPages ==
  {events[i].page : i \in {j \in 1..Len(events) :
      events[j].sig = "page_completed" /\ events[j].page \in mw.skip_pages}}

\* C35: when the last signal of an OCR run is about to be handled, every page
\* the run skipped still has, in the saved output, the text it had in the
\* output file the run started from.
C35_SkippedPagesKeepText ==
  (mw.worker = "ocr" /\ HeadIs("processing_finished")) =>
    \A p \in SkippedPages :
      HasPersistedText(resume_file, p) =>
        /\ HasPersistedText(out_file, p)
        /\ PersistedText(out_file, p) = PersistedText(resume_file, p)

(***************************************************************************)
(* Claims on the order in which the OCR worker's signals are handled (Spec)*)
(***************************************************************************)
\* the signals of the current run that the GUI thread has handled
HandledCount == Len(events) - Len(queue)

C37_BusyLeadsToIdle == mw.is_processing ~> ~mw.is_processing

\* C38: with a valid configuration, whenever the inbox queue holds an entry,
\* the queue is eventually taken from (the entry is dequeued), with no
\* further arrival in the inbox needed.
C38_QueuedLeadsToDequeued ==
  \A n \in 1..MaxInbox :
    (Len(mw.inbox_queue) >= n) ~> (Len(mw.inbox_queue) < n)

(***************************************************************************)
(* Claims on the inbox queue (SpecQueue)                                   *)
(***************************************************************************)
\* the step starts the extraction of an inbox PDF
AutoStartStep ==
  /\ w_live' = w_live + 1
  /\ mw'.worker = "extraction"
  /\ mw'.auto_mode

\* C39: in every step the inbox queue is the old queue, followed by the files
\* detected in the step, less k entries taken from its head.  Entries are
\* taken only when no stage is running and the configuration is sufficient;
\* the first k - 1 of them name files that have vanished and are dropped
\* without being started; the k-th is started (and is no longer queued) if
\* its file exists, and otherwise it too is dropped, the queue being empty
\* then.  No step starts an inbox PDF otherwise.
C39_QueueFifoAtMostOnce ==
  [][LET detected == SortedFiles(scanner'.seen \ scanner.seen)
         all == mw.inbox_queue \o [i \in 1..Len(detected) |-> PathOf(detected[i])]
         k == Len(all) - Len(mw'.inbox_queue)
         exists(pdf_path) == FileOf(pdf_path) \in inbox_dir.files
     IN /\ k \in 0..Len(all)
        /\ mw'.inbox_queue = SubSeq(all, k + 1, Len(all))
        /\ k > 0 =>
             /\ w_live = 0
             /\ ~mw.is_processing \/ HeadIs("processing_finished")
             /\ mw.config_ok
             /\ \A i \in 1..(k - 1) : ~exists(all[i])
             /\ IF exists(all[k])
                THEN AutoStartStep /\ mw'.current_pdf = all[k]
                ELSE k = Len(all) /\ ~AutoStartStep
        /\ k = 0 => ~AutoStartStep
    ]_vars
\* the first file was queued while the configuration was insufficient and
\* vanished; when the second file was detected it was dropped and the second
\* file started: no page of any PDF had been extracted before
C39_Witness ==
  /\ scanner.seen = {1, 2}
  /\ 1 \notin inbox_dir.files
  /\ mw.auto_mode
  /\ mw.worker = "extraction"
  /\ mw.current_pdf = PathOf(2)
  /\ mw.inbox_queue = << >>
  /\ cache_files = {}
  /\ w_pc = "ext_loop"

====
